---- MODULE Spec2Model ----
(***************************************************************************)
(* Cash-flow calculation engine of archive/calculations.                   *)
(*                                                                         *)
(* The functions are pure; the state machine is a caller that holds input  *)
(* series and calls one of the functions on them.  Amounts are Python      *)
(* floats: a value is the exact rational <<n, d>> it denotes (d > 0,       *)
(* lowest terms) and every arithmetic operation rounds its exact result to *)
(* the nearest value with MantissaBits significant bits, ties to even, as  *)
(* IEEE-754 binary floating point does (a double has 53 bits).  The        *)
(* exponent range is not limited: overflow and underflow are not modelled. *)
(***************************************************************************)
EXTENDS Integers, Sequences, FiniteSets, TLC

\* ------------------------------------------------------------------ bounds
MaxLen == 2
MantissaBits == 3

\* ------------------------------------------------- exact rational numbers
Abs(x) == IF x < 0 THEN -x ELSE x

Min(a, b) == IF a <= b THEN a ELSE b

RECURSIVE Gcd(_, _)
Gcd(a, b) == IF b = 0 THEN a ELSE Gcd(b, a % b)

RECURSIVE Pow2(_)
Pow2(k) == IF k <= 0 THEN 1 ELSE 2 * Pow2(k - 1)

RECURSIVE IntPow(_, _)
IntPow(b, k) == IF k <= 0 THEN 1 ELSE b * IntPow(b, k - 1)

\* the rational x[1]/x[2] in lowest terms with a positive denominator
\* (x[2] # 0); a function, so that its argument is evaluated once
Reduced[x \in Int \X Int] ==
    LET g == Gcd(Abs(x[1]), Abs(x[2]))
        s == IF x[2] < 0 THEN -1 ELSE 1
    IN  <<(s * x[1]) \div g, (s * x[2]) \div g>>

Rat(n, d) == Reduced[<<n, d>>]

Zero == <<0, 1>>
One == <<1, 1>>

RAdd(a, b) == Rat(a[1] * b[2] + b[1] * a[2], a[2] * b[2])
RSub(a, b) == Rat(a[1] * b[2] - b[1] * a[2], a[2] * b[2])
RMul(a, b) == Rat(a[1] * b[1], a[2] * b[2])
RDiv(a, b) == Rat(a[1] * b[2], a[2] * b[1])
RPow(a, k) == IF k >= 0 THEN Rat(IntPow(a[1], k), IntPow(a[2], k))
              ELSE Rat(IntPow(a[2], -k), IntPow(a[1], -k))
Less(a, b) == a[1] * b[2] < b[1] * a[2]

\* ---------------------------------------------- floating-point rounding
RECURSIVE FloorLog2(_)
FloorLog2(n) == IF n < 2 THEN 0 ELSE 1 + FloorLog2(n \div 2)

RECURSIVE ExpDown(_, _, _)
ExpDown(a, d, k) == IF a * Pow2(k) >= d THEN -k ELSE ExpDown(a, d, k + 1)

\* the binary exponent e of a/d > 0: 2^e <= a/d < 2^(e+1)
Exponent(a, d) == IF a >= d THEN FloorLog2(a \div d) ELSE ExpDown(a, d, 1)

\* q rounded to the nearest float of MantissaBits bits, ties to even
Rounded[q \in Int \X Int] ==
    IF q[1] = 0 THEN Zero
    ELSE LET a == Abs(q[1])
             d == q[2]
             sgn == IF q[1] < 0 THEN -1 ELSE 1
             s == MantissaBits - 1 - Exponent(a, d)
             num == IF s >= 0 THEN a * Pow2(s) ELSE a
             den == IF s >= 0 THEN d ELSE d * Pow2(-s)
             lo == num \div den
             rem == num % den
             m == IF 2 * rem > den \/ (2 * rem = den /\ lo % 2 = 1)
                  THEN lo + 1 ELSE lo
         IN  IF s >= 0 THEN Rat(sgn * m, Pow2(s))
             ELSE Rat(sgn * m * Pow2(-s), 1)

fl(q) == Rounded[q]

\* ------------------------------------------- Python float arithmetic
float_add(a, b) == fl(RAdd(a, b))
float_sub(a, b) == fl(RSub(a, b))
\* a / b and a ** k for operands on which Python raises no error
float_truediv(a, b) == fl(RDiv(a, b))
float_pow(a, k) == fl(RPow(a, k))

\* --------------------------------------------------- outcomes of a call
Returned(v) == [status |-> "returned", exc |-> "none", value |-> v]
Raised(e) == [status |-> "raised", exc |-> e, value |-> <<>>]
NoCall == [status |-> "none", exc |-> "none", value |-> <<>>]

\* the periods argument: None, or a list
None == [isNone |-> TRUE, list |-> <<>>]
List(s) == [isNone |-> FALSE, list |-> s]

\* zip(a, b) stops at the shorter sequence
zip(a, b) == [i \in 1..Min(Len(a), Len(b)) |-> <<a[i], b[i]>>]

\* list(range(1, n + 1))
range1(n) == [i \in 1..n |-> i]

\* ------------------------------------------------ compute_net_cash_flow
\* variant: operands of the subtraction swapped
compute_net_cash_flow_swapped(inf, outf) ==
    IF Len(inf) # Len(outf) THEN Raised("ValueError")
    ELSE LET z == zip(inf, outf)
         IN  Returned([i \in DOMAIN z |-> float_sub(z[i][2], z[i][1])])

\* variant: no length check, zip pairs the common prefix
compute_net_cash_flow_unchecked(inf, outf) ==
    LET z == zip(inf, outf)
    IN  Returned([i \in DOMAIN z |-> float_sub(z[i][1], z[i][2])])

compute_net_cash_flow(inf, outf) ==
    IF Len(inf) # Len(outf) THEN Raised("ValueError")
    ELSE LET z == zip(inf, outf)
         IN  Returned([i \in DOMAIN z |-> float_sub(z[i][1], z[i][2])])

\* ---------------------------------------------- compute_cumulative_flow
\* the for loop from its i-th iteration, with the running total and the
\* list built so far
\* variant: the flow is appended instead of the running total
RECURSIVE cumulative_loop_flow(_, _, _, _)
cumulative_loop_flow(net_flows, i, total, cumulative) ==
    IF i > Len(net_flows) THEN cumulative
    ELSE LET t == float_add(total, net_flows[i])
         IN  cumulative_loop_flow(net_flows, i + 1, t,
                                  Append(cumulative, net_flows[i]))

RECURSIVE cumulative_loop(_, _, _, _)
cumulative_loop(net_flows, i, total, cumulative) ==
    IF i > Len(net_flows) THEN cumulative
    ELSE LET t == float_add(total, net_flows[i])
         IN  cumulative_loop(net_flows, i + 1, t, Append(cumulative, t))

compute_cumulative_flow(net_flows) ==
    Returned(cumulative_loop(net_flows, 1, Zero, <<>>))

\* -------------------------------------------------- apply_discount_rate
\* cf / ((1 + discount_rate) ** period): Python raises ZeroDivisionError
\* for 0.0 ** negative and for a division by 0.0
\* variant: the cash flow is multiplied by the growth factor
discount_element_compound(cf, rate, period) ==
    LET base == float_add(One, rate)
    IN  IF base = Zero /\ period < 0 THEN Raised("ZeroDivisionError")
        ELSE Returned(fl(RMul(cf, float_pow(base, period))))

\* variant: a zero divisor is clamped and the cash flow passes undiscounted
discount_element_clamped(cf, rate, period) ==
    LET base == float_add(One, rate)
    IN  IF base = Zero /\ period < 0 THEN Returned(cf)
        ELSE LET p == float_pow(base, period)
             IN  IF p = Zero THEN Returned(cf)
                 ELSE Returned(float_truediv(cf, p))

discount_element(cf, rate, period) ==
    LET base == float_add(One, rate)
    IN  IF base = Zero /\ period < 0 THEN Raised("ZeroDivisionError")
        ELSE LET p == float_pow(base, period)
             IN  IF p = Zero THEN Raised("ZeroDivisionError")
                 ELSE Returned(float_truediv(cf, p))

\* the list comprehension, evaluated left to right from pair i on; the
\* first element that raises ends it
RECURSIVE discount_comprehension(_, _, _, _)
discount_comprehension(z, rate, i, acc) ==
    IF i > Len(z) THEN Returned(acc)
    ELSE LET e == discount_element(z[i][1], rate, z[i][2])
         IN  IF e.status = "raised" THEN e
             ELSE discount_comprehension(z, rate, i + 1, Append(acc, e.value))

\* variant: no length check, zip pairs the common prefix
apply_discount_rate_unchecked(cash_flows, rate, per) ==
    LET p == IF per.isNone THEN range1(Len(cash_flows)) ELSE per.list
    IN  discount_comprehension(zip(cash_flows, p), rate, 1, <<>>)

\* variant: supplied periods of the right length are replaced by 1..N
apply_discount_rate_renumbered(cash_flows, rate, per) ==
    LET p == IF per.isNone THEN range1(Len(cash_flows)) ELSE per.list
    IN  IF Len(cash_flows) # Len(p) THEN Raised("ValueError")
        ELSE discount_comprehension(zip(cash_flows, range1(Len(cash_flows))),
                                    rate, 1, <<>>)

\* variant: the default periods are range(len(cash_flows)), from 0
apply_discount_rate_from0(cash_flows, rate, per) ==
    LET p == IF per.isNone THEN [i \in 1..Len(cash_flows) |-> i - 1]
             ELSE per.list
    IN  IF Len(cash_flows) # Len(p) THEN Raised("ValueError")
        ELSE discount_comprehension(zip(cash_flows, p), rate, 1, <<>>)

\* variant: an empty periods list is treated like a missing one
apply_discount_rate_falsy(cash_flows, rate, per) ==
    LET p == IF per.isNone \/ per.list = <<>>
             THEN range1(Len(cash_flows)) ELSE per.list
    IN  IF Len(cash_flows) # Len(p) THEN Raised("ValueError")
        ELSE discount_comprehension(zip(cash_flows, p), rate, 1, <<>>)

apply_discount_rate(cash_flows, rate, per) ==
    LET p == IF per.isNone THEN range1(Len(cash_flows)) ELSE per.list
    IN  IF Len(cash_flows) # Len(p) THEN Raised("ValueError")
        ELSE discount_comprehension(zip(cash_flows, p), rate, 1, <<>>)

\* ------------------------------ compute_cumulative_discounted_cash_flow
\* variant: the first period gets no cumulative entry
RECURSIVE cumulative_discounted_loop_from2(_, _, _, _)
cumulative_discounted_loop_from2(discounted, i, total, cumulative_discounted) ==
    IF i > Len(discounted) THEN cumulative_discounted
    ELSE LET t == float_add(total, discounted[i])
         IN  cumulative_discounted_loop_from2(
                 discounted, i + 1, t,
                 IF i = 1 THEN cumulative_discounted
                 ELSE Append(cumulative_discounted, t))

RECURSIVE cumulative_discounted_loop(_, _, _, _)
cumulative_discounted_loop(discounted, i, total, cumulative_discounted) ==
    IF i > Len(discounted) THEN cumulative_discounted
    ELSE LET t == float_add(total, discounted[i])
         IN  cumulative_discounted_loop(discounted, i + 1, t,
                                        Append(cumulative_discounted, t))

compute_cumulative_discounted_cash_flow(discounted) ==
    Returned(cumulative_discounted_loop(discounted, 1, Zero, <<>>))

\* ----------------------------------------- generate_cash_flow_statement
\* variant: the cumulative series is discounted instead of the net series
generate_cash_flow_statement_cumdisc(inf, outf, rate, per) ==
    LET net_flows == compute_net_cash_flow(inf, outf)
    IN  IF net_flows.status = "raised" THEN net_flows
        ELSE LET cumulative_flows == compute_cumulative_flow(net_flows.value)
                 discounted_flows ==
                     apply_discount_rate(cumulative_flows.value, rate, per)
             IN  IF discounted_flows.status = "raised" THEN discounted_flows
                 ELSE LET cumulative_discounted ==
                              compute_cumulative_discounted_cash_flow(
                                  discounted_flows.value)
                      IN  Returned(
                            [net_cash_flow |-> net_flows.value,
                             cumulative_cash_flow |-> cumulative_flows.value,
                             discounted_cash_flow |-> discounted_flows.value,
                             cumulative_discounted_cash_flow |->
                                 cumulative_discounted.value])

\* variant: the cumulative discounted series is left out of an empty
\* statement
generate_cash_flow_statement_sparse(inf, outf, rate, per) ==
    LET net_flows == compute_net_cash_flow(inf, outf)
    IN  IF net_flows.status = "raised" THEN net_flows
        ELSE LET cumulative_flows == compute_cumulative_flow(net_flows.value)
                 discounted_flows ==
                     apply_discount_rate(net_flows.value, rate, per)
             IN  IF discounted_flows.status = "raised" THEN discounted_flows
                 ELSE LET cumulative_discounted ==
                              compute_cumulative_discounted_cash_flow(
                                  discounted_flows.value)
                      IN  IF net_flows.value = <<>>
                          THEN Returned(
                            [net_cash_flow |-> net_flows.value,
                             cumulative_cash_flow |-> cumulative_flows.value,
                             discounted_cash_flow |-> discounted_flows.value])
                          ELSE Returned(
                            [net_cash_flow |-> net_flows.value,
                             cumulative_cash_flow |-> cumulative_flows.value,
                             discounted_cash_flow |-> discounted_flows.value,
                             cumulative_discounted_cash_flow |->
                                 cumulative_discounted.value])

\* variant: a periods list of the wrong length is replaced by the default
generate_cash_flow_statement_fallback(inf, outf, rate, per) ==
    LET net_flows == compute_net_cash_flow(inf, outf)
    IN  IF net_flows.status = "raised" THEN net_flows
        ELSE LET cumulative_flows == compute_cumulative_flow(net_flows.value)
                 first == apply_discount_rate(net_flows.value, rate, per)
                 discounted_flows ==
                     IF first.status = "raised" /\ first.exc = "ValueError"
                     THEN apply_discount_rate(net_flows.value, rate, None)
                     ELSE first
             IN  IF discounted_flows.status = "raised" THEN discounted_flows
                 ELSE LET cumulative_discounted ==
                              compute_cumulative_discounted_cash_flow(
                                  discounted_flows.value)
                      IN  Returned(
                            [net_cash_flow |-> net_flows.value,
                             cumulative_cash_flow |-> cumulative_flows.value,
                             discounted_cash_flow |-> discounted_flows.value,
                             cumulative_discounted_cash_flow |->
                                 cumulative_discounted.value])

\* an exception of a sub-step leaves the function at that step
generate_cash_flow_statement(inf, outf, rate, per) ==
    LET net_flows == compute_net_cash_flow(inf, outf)
    IN  IF net_flows.status = "raised" THEN net_flows
        ELSE LET cumulative_flows == compute_cumulative_flow(net_flows.value)
                 discounted_flows ==
                     apply_discount_rate(net_flows.value, rate, per)
             IN  IF discounted_flows.status = "raised" THEN discounted_flows
                 ELSE LET cumulative_discounted ==
                              compute_cumulative_discounted_cash_flow(
                                  discounted_flows.value)
                      IN  Returned(
                            [net_cash_flow |-> net_flows.value,
                             cumulative_cash_flow |-> cumulative_flows.value,
                             discounted_cash_flow |-> discounted_flows.value,
                             cumulative_discounted_cash_flow |->
                                 cumulative_discounted.value])

\* ===================================================== estimation engine
\* ------------------------------------------- Python values of an item
\* an attribute value is a float, an int, a string (its sequence of
\* characters) or None; a line item is a dict, a function from its keys
Num(r) == [num |-> r]
IntVal(n) == [int |-> n]
Str(s) == [str |-> s]
NoneValue == [none |-> TRUE]

IsNum(v) == DOMAIN v = {"num"}
IsInt(v) == DOMAIN v = {"int"}
IsStr(v) == DOMAIN v = {"str"}

\* item.get(key, default)
get(item, key, default) == IF key \in DOMAIN item THEN item[key] ELSE default

float_mul(a, b) == fl(RMul(a, b))

\* ------------------------------------------------------------ float(x)
IsDigit(c) == c \in {"0", "1", "2", "3", "4", "5", "6", "7", "8", "9"}

DigitValue(c) ==
    CASE c = "0" -> 0 [] c = "1" -> 1 [] c = "2" -> 2 [] c = "3" -> 3
      [] c = "4" -> 4 [] c = "5" -> 5 [] c = "6" -> 6 [] c = "7" -> 7
      [] c = "8" -> 8 [] c = "9" -> 9

\* the number the first n characters of the digit string s denote
RECURSIVE DigitsValue(_, _)
DigitsValue(s, n) ==
    IF n = 0 THEN 0 ELSE 10 * DigitsValue(s, n - 1) + DigitValue(s[n])

\* variant: the digits after the point are ignored
float_from_string_integral(s) ==
    LET signed == Len(s) > 0 /\ s[1] \in {"+", "-"}
        body == IF signed THEN Tail(s) ELSE s
        sgn == IF signed /\ s[1] = "-" THEN -1 ELSE 1
        points == {i \in DOMAIN body : body[i] = "."}
        digits == SelectSeq(body, IsDigit)
        point == IF points = {} THEN Len(body) + 1
                 ELSE CHOOSE i \in points : TRUE
    IN  IF /\ Cardinality(points) <= 1
           /\ Len(digits) >= 1
           /\ \A i \in DOMAIN body : IsDigit(body[i]) \/ body[i] = "."
        THEN Returned(fl(Rat(sgn * DigitsValue(digits, point - 1), 1)))
        ELSE Raised("ValueError")

\* float(s) of a string: an optional sign, digits with at most one point
\* and at least one digit; any other string is a ValueError (exponents,
\* inf, nan, underscores and surrounding blanks are not modelled)
float_from_string(s) ==
    LET signed == Len(s) > 0 /\ s[1] \in {"+", "-"}
        body == IF signed THEN Tail(s) ELSE s
        sgn == IF signed /\ s[1] = "-" THEN -1 ELSE 1
        points == {i \in DOMAIN body : body[i] = "."}
        digits == SelectSeq(body, IsDigit)
        point == IF points = {} THEN Len(body) + 1
                 ELSE CHOOSE i \in points : TRUE
    IN  IF /\ Cardinality(points) <= 1
           /\ Len(digits) >= 1
           /\ \A i \in DOMAIN body : IsDigit(body[i]) \/ body[i] = "."
        THEN Returned(fl(Rat(sgn * DigitsValue(digits, Len(digits)),
                             IntPow(10, Len(body) - Min(point, Len(body))))))
        ELSE Raised("ValueError")

\* variant: a string that is not a number converts to 0.0
float_lenient(x) ==
    IF IsNum(x) THEN Returned(x.num)
    ELSE IF IsInt(x) THEN Returned(fl(Rat(x.int, 1)))
    ELSE IF IsStr(x)
         THEN LET r == float_from_string(x.str)
              IN  IF r.status = "raised" THEN Returned(Zero) ELSE r
    ELSE Raised("TypeError")

\* float(x): a float is itself, an int and a numeric string are converted,
\* another string is a ValueError, None is a TypeError
float(x) ==
    IF IsNum(x) THEN Returned(x.num)
    ELSE IF IsInt(x) THEN Returned(fl(Rat(x.int, 1)))
    ELSE IF IsStr(x) THEN float_from_string(x.str)
    ELSE Raised("TypeError")

\* -------------------------------------------------- calculate_line_item
\* variant: a negative quantity is clamped to 0
calculate_line_item_clamped(quantity, unit_price) ==
    IF Less(quantity, Zero) THEN Zero ELSE float_mul(quantity, unit_price)

calculate_line_item(quantity, unit_price) == float_mul(quantity, unit_price)

\* --------------------------------------------------- calculate_subtotal
\* sum(line_totals): the additions from the left, starting at 0
RECURSIVE sum(_, _)
sum(line_totals, n) ==
    IF n = 0 THEN Zero ELSE float_add(sum(line_totals, n - 1), line_totals[n])

\* variant: the last line total is left out of the sum
calculate_subtotal_short(line_totals) ==
    IF Len(line_totals) = 0 THEN Zero
    ELSE sum(line_totals, Len(line_totals) - 1)

\* variant: an empty sequence has no sum
calculate_subtotal_nonempty(line_totals) ==
    IF Len(line_totals) = 0 THEN One ELSE sum(line_totals, Len(line_totals))

calculate_subtotal(line_totals) == sum(line_totals, Len(line_totals))

\* -------------------------------------------------------- calculate_tax
calculate_tax(subtotal, rate) == float_mul(subtotal, rate)

\* ------------------------------------------------ calculate_grand_total
calculate_grand_total(subtotal, tax) == float_add(subtotal, tax)

\* ------------------------------------------ generate_estimation_summary
\* the tax_rate argument: left out, or a float
NoTaxRate == [supplied |-> FALSE, rate |-> Zero]
TaxRate(r) == [supplied |-> TRUE, rate |-> r]

\* variant: the attributes of the input item are carried over
computed_item_merged(item, qty, up, line_total) ==
    [k \in DOMAIN item \cup {"description", "quantity", "unit_price",
                             "line_subtotal"} |->
        CASE k = "description" -> get(item, "description", Str(<<>>))
          [] k = "quantity" -> Num(qty)
          [] k = "unit_price" -> Num(up)
          [] k = "line_subtotal" -> Num(line_total)
          [] OTHER -> item[k]]

\* the dict appended to computed_items
computed_item(item, qty, up, line_total) ==
    [description |-> get(item, "description", Str(<<>>)),
     quantity |-> Num(qty),
     unit_price |-> Num(up),
     line_subtotal |-> Num(line_total)]

\* variant: a missing quantity or unit price counts as 1
RECURSIVE summary_loop_unit(_, _, _, _)
summary_loop_unit(items, i, computed_items, line_totals) ==
    IF i > Len(items)
    THEN Returned([computed_items |-> computed_items,
                   line_totals |-> line_totals])
    ELSE LET item == items[i]
             qty == float(get(item, "quantity", IntVal(1)))
         IN  IF qty.status = "raised" THEN qty
             ELSE LET up == float(get(item, "unit_price", IntVal(1)))
                  IN  IF up.status = "raised" THEN up
                      ELSE LET line_total ==
                                   calculate_line_item(qty.value, up.value)
                           IN  summary_loop_unit(items, i + 1,
                                   Append(computed_items,
                                          computed_item(item, qty.value,
                                                        up.value, line_total)),
                                   Append(line_totals, line_total))

\* variant: each computed item is put in front of the list
RECURSIVE summary_loop_reversed(_, _, _, _)
summary_loop_reversed(items, i, computed_items, line_totals) ==
    IF i > Len(items)
    THEN Returned([computed_items |-> computed_items,
                   line_totals |-> line_totals])
    ELSE LET item == items[i]
             qty == float(get(item, "quantity", IntVal(0)))
         IN  IF qty.status = "raised" THEN qty
             ELSE LET up == float(get(item, "unit_price", IntVal(0)))
                  IN  IF up.status = "raised" THEN up
                      ELSE LET line_total ==
                                   calculate_line_item(qty.value, up.value)
                           IN  summary_loop_reversed(items, i + 1,
                                   <<computed_item(item, qty.value,
                                                   up.value, line_total)>>
                                       \o computed_items,
                                   Append(line_totals, line_total))

\* the for loop from its i-th item on, with the two lists built so far; a
\* conversion that raises ends the loop and the call
RECURSIVE summary_loop(_, _, _, _)
summary_loop(items, i, computed_items, line_totals) ==
    IF i > Len(items)
    THEN Returned([computed_items |-> computed_items,
                   line_totals |-> line_totals])
    ELSE LET item == items[i]
             qty == float(get(item, "quantity", IntVal(0)))
         IN  IF qty.status = "raised" THEN qty
             ELSE LET up == float(get(item, "unit_price", IntVal(0)))
                  IN  IF up.status = "raised" THEN up
                      ELSE LET line_total ==
                                   calculate_line_item(qty.value, up.value)
                           IN  summary_loop(items, i + 1,
                                   Append(computed_items,
                                          computed_item(item, qty.value,
                                                        up.value, line_total)),
                                   Append(line_totals, line_total))

\* variant: the tax rate defaults to a quarter
generate_estimation_summary_taxed(items, tax_arg) ==
    LET rate == IF tax_arg.supplied THEN tax_arg.rate ELSE <<1, 4>>
        loop == summary_loop(items, 1, <<>>, <<>>)
    IN  IF loop.status = "raised" THEN loop
        ELSE LET subtotal == calculate_subtotal(loop.value.line_totals)
                 tax == calculate_tax(subtotal, rate)
                 grand_total == calculate_grand_total(subtotal, tax)
             IN  Returned([line_items |-> loop.value.computed_items,
                           subtotal |-> subtotal,
                           tax |-> tax,
                           grand_total |-> grand_total])

generate_estimation_summary(items, tax_arg) ==
    LET rate == IF tax_arg.supplied THEN tax_arg.rate ELSE Zero
        loop == summary_loop(items, 1, <<>>, <<>>)
    IN  IF loop.status = "raised" THEN loop
        ELSE LET subtotal == calculate_subtotal(loop.value.line_totals)
                 tax == calculate_tax(subtotal, rate)
                 grand_total == calculate_grand_total(subtotal, tax)
             IN  Returned([line_items |-> loop.value.computed_items,
                           subtotal |-> subtotal,
                           tax |-> tax,
                           grand_total |-> grand_total])

\* ---------------------------------------------------------------- state
VARIABLES inflows, outflows, discount_rate, periods, op, result
\* the caller's data for the estimation engine: the line items and tax rate
\* of a summary, the numbers passed to one of the four small functions
VARIABLES line_items, tax_rate, args

\* the objects of a call that runs step by step: heap maps the identity of
\* every list to its present content, calls holds the position and the
\* local variables of every invocation
VARIABLES heap, calls
\* an agent object (its class and its streaming attribute), the
\* project_name argument of a call of its generate method, and the position,
\* local variables and outcome of that call
VARIABLES agent, project_name, gen

vars == <<inflows, outflows, discount_rate, periods, op, result,
          line_items, tax_rate, args, heap, calls, agent, project_name, gen>>

\* no agent has been created
NoAgent ==
    /\ agent = [class |-> "none", streaming |-> FALSE]
    /\ project_name = ""
    /\ gen = [pc |-> "none"]

Amounts == {<<-1, 1>>, <<1, 1>>, <<3, 1>>}
Rates == {<<-1, 1>>, <<1, 16>>, <<1, 4>>}
PeriodVals == 1..MaxLen

SeqsUpTo(S, n) == UNION {[1..k -> S] : k \in 0..n}

Init ==
    /\ NoAgent
    /\ inflows \in SeqsUpTo(Amounts, MaxLen)
    /\ outflows \in SeqsUpTo(Amounts, MaxLen)
    /\ discount_rate \in Rates
    /\ periods \in {None} \cup {List(s) : s \in SeqsUpTo(PeriodVals, MaxLen)}
    /\ op = "none"
    /\ result = NoCall
    /\ line_items = <<>>
    /\ tax_rate = NoTaxRate
    /\ args = <<>>
    /\ heap = <<>>
    /\ calls = <<>>

Call_compute_net_cash_flow ==
    /\ op = "none"
    /\ op' = "compute_net_cash_flow"
    /\ result' = compute_net_cash_flow(inflows, outflows)
    /\ UNCHANGED <<inflows, outflows, discount_rate, periods,
                   line_items, tax_rate, args, heap, calls,
                   agent, project_name, gen>>

\* the caller passes its first series as the net_flows argument
Call_compute_cumulative_flow ==
    /\ op = "none"
    /\ op' = "compute_cumulative_flow"
    /\ result' = compute_cumulative_flow(inflows)
    /\ UNCHANGED <<inflows, outflows, discount_rate, periods,
                   line_items, tax_rate, args, heap, calls,
                   agent, project_name, gen>>

\* the caller passes its first series as the cash_flows argument
Call_apply_discount_rate ==
    /\ op = "none"
    /\ op' = "apply_discount_rate"
    /\ result' = apply_discount_rate(inflows, discount_rate, periods)
    /\ UNCHANGED <<inflows, outflows, discount_rate, periods,
                   line_items, tax_rate, args, heap, calls,
                   agent, project_name, gen>>

\* the caller passes its first series as the discounted_cash_flows argument
Call_compute_cumulative_discounted_cash_flow ==
    /\ op = "none"
    /\ op' = "compute_cumulative_discounted_cash_flow"
    /\ result' = compute_cumulative_discounted_cash_flow(inflows)
    /\ UNCHANGED <<inflows, outflows, discount_rate, periods,
                   line_items, tax_rate, args, heap, calls,
                   agent, project_name, gen>>

Call_generate_cash_flow_statement ==
    /\ op = "none"
    /\ op' = "generate_cash_flow_statement"
    /\ result' = generate_cash_flow_statement(inflows, outflows,
                                              discount_rate, periods)
    /\ UNCHANGED <<inflows, outflows, discount_rate, periods,
                   line_items, tax_rate, args, heap, calls,
                   agent, project_name, gen>>

Next ==
    \/ Call_compute_net_cash_flow
    \/ Call_compute_cumulative_flow
    \/ Call_apply_discount_rate
    \/ Call_compute_cumulative_discounted_cash_flow
    \/ Call_generate_cash_flow_statement

Spec == Init /\ [][Next]_vars

\* ------------------------------------------- state of the estimation calls
MaxItems == 2

\* a dict entry, or no entry when the value is absent
Absent == [absent |-> TRUE]
Entry(k, v) == IF v = Absent THEN <<>> ELSE k :> v

QuantityValues ==
    {Absent, Num(<<2, 1>>), Num(<<-1, 1>>), Str(<<"2">>),
     Str(<<"a", "b", "c">>), NoneValue}
UnitPriceValues ==
    {Absent, Num(<<3, 2>>), Str(<<"1", ".", "5">>), Str(<<"a", "b", "c">>)}
\* the other attributes of an item: none, or a description and a sku
OtherAttributes ==
    {<<>>,
     ("description" :> Str(<<"d", "e", "s", "k">>)) @@
         ("sku" :> Str(<<"X", "1">>))}

LineItems ==
    {Entry("quantity", q) @@ Entry("unit_price", u) @@ o :
        q \in QuantityValues, u \in UnitPriceValues, o \in OtherAttributes}

TaxArgs == {NoTaxRate, TaxRate(Zero), TaxRate(<<1, 4>>)}
ArgNumbers == {<<-1, 1>>, <<3, 2>>, <<2, 1>>}

\* the caller holds either the arguments of a summary or the numbers for one
\* of the small functions
EstimationInit ==
    /\ NoAgent
    /\ inflows = <<>>
    /\ outflows = <<>>
    /\ discount_rate = Zero
    /\ periods = None
    /\ op = "none"
    /\ result = NoCall
    /\ heap = <<>>
    /\ calls = <<>>
    /\ \/ /\ line_items \in SeqsUpTo(LineItems, MaxItems)
          /\ tax_rate \in TaxArgs
          /\ args = <<>>
       \/ /\ line_items = <<>>
          /\ tax_rate = NoTaxRate
          /\ args \in SeqsUpTo(ArgNumbers, MaxItems)

\* calculate_line_item(quantity, unit_price) on two numbers
Call_calculate_line_item ==
    /\ op = "none"
    /\ Len(args) = 2
    /\ op' = "calculate_line_item"
    /\ result' = Returned(calculate_line_item(args[1], args[2]))
    /\ UNCHANGED <<inflows, outflows, discount_rate, periods,
                   line_items, tax_rate, args, heap, calls,
                   agent, project_name, gen>>

\* calculate_subtotal(line_totals) on a list of numbers
Call_calculate_subtotal ==
    /\ op = "none"
    /\ op' = "calculate_subtotal"
    /\ result' = Returned(calculate_subtotal(args))
    /\ UNCHANGED <<inflows, outflows, discount_rate, periods,
                   line_items, tax_rate, args, heap, calls,
                   agent, project_name, gen>>

\* calculate_tax(subtotal, tax_rate) on two numbers
Call_calculate_tax ==
    /\ op = "none"
    /\ Len(args) = 2
    /\ op' = "calculate_tax"
    /\ result' = Returned(calculate_tax(args[1], args[2]))
    /\ UNCHANGED <<inflows, outflows, discount_rate, periods,
                   line_items, tax_rate, args, heap, calls,
                   agent, project_name, gen>>

\* calculate_grand_total(subtotal, tax) on two numbers
Call_calculate_grand_total ==
    /\ op = "none"
    /\ Len(args) = 2
    /\ op' = "calculate_grand_total"
    /\ result' = Returned(calculate_grand_total(args[1], args[2]))
    /\ UNCHANGED <<inflows, outflows, discount_rate, periods,
                   line_items, tax_rate, args, heap, calls,
                   agent, project_name, gen>>

Call_generate_estimation_summary ==
    /\ op = "none"
    /\ op' = "generate_estimation_summary"
    /\ result' = generate_estimation_summary(line_items, tax_rate)
    /\ UNCHANGED <<inflows, outflows, discount_rate, periods,
                   line_items, tax_rate, args, heap, calls,
                   agent, project_name, gen>>

EstimationNext ==
    \/ Call_calculate_line_item
    \/ Call_calculate_subtotal
    \/ Call_calculate_tax
    \/ Call_calculate_grand_total
    \/ Call_generate_estimation_summary

EstimationSpec == EstimationInit /\ [][EstimationNext]_vars

\* ------------------------------------- the calls, statement by statement
\* the number of invocations that run at the same time
MaxCalls == 2
Calls == 1..MaxCalls
Caller == 0

callerVars == <<inflows, outflows, discount_rate, periods, op, result,
                line_items, tax_rate, args, agent, project_name, gen>>

\* the identity of a list object: who created it and the name it is bound to
Ref(owner, name) == <<owner, name>>

\* variant: the list is a module-level object shared by all the calls
Local_shared(p, name) == Ref(1, name)

\* the list that call p creates for its local variable name
Local(p, name) == Ref(p, name)

\* a new list object with content v
alloc(h, id, v) == [x \in DOMAIN h \cup {id} |-> IF x = id THEN v ELSE h[x]]

\* list.append(v) on the object id
append(h, id, v) == [h EXCEPT ![id] = Append(@, v)]

\* what a call has done so far: subtractions, additions to a running
\* total, discountings and line items examined
NoWork == [subs |-> 0, adds |-> 0, divs |-> 0, items |-> 0]

CashFunctions ==
    {"compute_net_cash_flow", "compute_cumulative_flow",
     "apply_discount_rate", "compute_cumulative_discounted_cash_flow",
     "generate_cash_flow_statement"}

\* the first statement of each function
EntryPoint(f) ==
    CASE f = "compute_net_cash_flow" -> "net_check"
      [] f = "compute_cumulative_flow" -> "cum_init"
      [] f = "apply_discount_rate" -> "disc_default"
      [] f = "compute_cumulative_discounted_cash_flow" -> "cumdisc_init"
      [] f = "generate_cash_flow_statement" -> "net_check"
      [] f = "generate_estimation_summary" -> "sum_init"

Idle ==
    [fn |-> "idle", pc |-> "done", i |-> 0, total |-> Zero,
     per |-> Ref(Caller, "periods"), result |-> NoCall, work |-> NoWork]

\* a call of f that has not executed a statement yet
NewCall(f) == [Idle EXCEPT !.fn = f, !.pc = EntryPoint(f)]

\* the objects the caller passes: a single function gets the caller's first
\* series, inside generate_cash_flow_statement (lines 108-110) it gets the
\* list the statement has built
net_flows_of(p) ==
    IF calls[p].fn = "generate_cash_flow_statement"
    THEN Local(p, "net_flows") ELSE Ref(Caller, "inflows")

discounted_of(p) ==
    IF calls[p].fn = "generate_cash_flow_statement"
    THEN Local(p, "discounted_flows") ELSE Ref(Caller, "inflows")

\* variant: the length of a supplied periods list is validated up front,
\* with the lengths of inflows and outflows
Step_net_check_upfront(p) ==
    /\ calls[p].pc = "net_check"
    /\ IF \/ Len(heap[Ref(Caller, "inflows")]) #
                 Len(heap[Ref(Caller, "outflows")])
          \/ /\ calls[p].fn = "generate_cash_flow_statement"
             /\ ~periods.isNone
             /\ Len(heap[Ref(Caller, "periods")]) #
                    Len(heap[Ref(Caller, "inflows")])
       THEN /\ calls' = [calls EXCEPT ![p].pc = "done",
                                      ![p].result = Raised("ValueError")]
            /\ UNCHANGED heap
       ELSE /\ heap' = alloc(heap, Local(p, "net_flows"), <<>>)
            /\ calls' = [calls EXCEPT ![p].pc = "net_comp", ![p].i = 1]
    /\ UNCHANGED callerVars

\* line 18-19 and the start of the comprehension of line 20
Step_net_check(p) ==
    /\ calls[p].pc = "net_check"
    /\ IF Len(heap[Ref(Caller, "inflows")]) #
              Len(heap[Ref(Caller, "outflows")])
       THEN /\ calls' = [calls EXCEPT ![p].pc = "done",
                                      ![p].result = Raised("ValueError")]
            /\ UNCHANGED heap
       ELSE /\ heap' = alloc(heap, Local(p, "net_flows"), <<>>)
            /\ calls' = [calls EXCEPT ![p].pc = "net_comp", ![p].i = 1]
    /\ UNCHANGED callerVars

\* line 20: one element of the comprehension, or its end
Step_net_comp(p) ==
    /\ calls[p].pc = "net_comp"
    /\ LET z == zip(heap[Ref(Caller, "inflows")],
                    heap[Ref(Caller, "outflows")])
           i == calls[p].i
       IN  IF i <= Len(z)
           THEN /\ heap' = append(heap, Local(p, "net_flows"),
                                  float_sub(z[i][1], z[i][2]))
                /\ calls' = [calls EXCEPT ![p].i = i + 1,
                                          ![p].work.subs = @ + 1]
           ELSE /\ UNCHANGED heap
                /\ calls' =
                     IF calls[p].fn = "compute_net_cash_flow"
                     THEN [calls EXCEPT
                             ![p].pc = "done",
                             ![p].result = Returned(Local(p, "net_flows"))]
                     ELSE [calls EXCEPT ![p].pc = "cum_init"]
    /\ UNCHANGED callerVars

\* lines 33-34
Step_cum_init(p) ==
    /\ calls[p].pc = "cum_init"
    /\ heap' = alloc(heap, Local(p, "cumulative"), <<>>)
    /\ calls' = [calls EXCEPT ![p].pc = "cum_loop", ![p].i = 1,
                              ![p].total = Zero]
    /\ UNCHANGED callerVars

\* variant: the running total is written into the argument list, which is
\* returned
Step_cum_loop_inplace(p) ==
    /\ calls[p].pc = "cum_loop"
    /\ LET net_flows == heap[net_flows_of(p)]
           i == calls[p].i
       IN  IF i <= Len(net_flows)
           THEN LET t == float_add(calls[p].total, net_flows[i])
                IN  /\ heap' = [heap EXCEPT ![net_flows_of(p)][i] = t]
                    /\ calls' = [calls EXCEPT ![p].i = i + 1,
                                              ![p].total = t,
                                              ![p].work.adds = @ + 1]
           ELSE /\ UNCHANGED heap
                /\ calls' =
                     IF calls[p].fn = "compute_cumulative_flow"
                     THEN [calls EXCEPT
                             ![p].pc = "done",
                             ![p].result = Returned(net_flows_of(p))]
                     ELSE [calls EXCEPT ![p].pc = "disc_default"]
    /\ UNCHANGED callerVars

\* lines 35-38: one iteration of the loop, or its end and the return
Step_cum_loop(p) ==
    /\ calls[p].pc = "cum_loop"
    /\ LET net_flows == heap[net_flows_of(p)]
           i == calls[p].i
       IN  IF i <= Len(net_flows)
           THEN LET t == float_add(calls[p].total, net_flows[i])
                IN  /\ heap' = append(heap, Local(p, "cumulative"), t)
                    /\ calls' = [calls EXCEPT ![p].i = i + 1,
                                              ![p].total = t,
                                              ![p].work.adds = @ + 1]
           ELSE /\ UNCHANGED heap
                /\ calls' =
                     IF calls[p].fn = "compute_cumulative_flow"
                     THEN [calls EXCEPT
                             ![p].pc = "done",
                             ![p].result = Returned(Local(p, "cumulative"))]
                     ELSE [calls EXCEPT ![p].pc = "disc_default"]
    /\ UNCHANGED callerVars
\* lines 56-57: the local variable periods is bound to a new list 1..N
\* when the argument is None
Step_disc_default(p) ==
    /\ calls[p].pc = "disc_default"
    /\ IF periods.isNone
       THEN /\ heap' = alloc(heap, Local(p, "periods"),
                             range1(Len(heap[net_flows_of(p)])))
            /\ calls' = [calls EXCEPT ![p].pc = "disc_check",
                                      ![p].per = Local(p, "periods")]
       ELSE /\ UNCHANGED heap
            /\ calls' = [calls EXCEPT ![p].pc = "disc_check",
                                      ![p].per = Ref(Caller, "periods")]
    /\ UNCHANGED callerVars

\* variant: a length mismatch makes the function start over
Step_disc_check_retry(p) ==
    /\ calls[p].pc = "disc_check"
    /\ IF Len(heap[net_flows_of(p)]) # Len(heap[calls[p].per])
       THEN /\ calls' = [calls EXCEPT ![p].pc = "disc_default"]
            /\ UNCHANGED heap
       ELSE /\ heap' = alloc(heap, Local(p, "discounted_flows"), <<>>)
            /\ calls' = [calls EXCEPT ![p].pc = "disc_comp", ![p].i = 1]
    /\ UNCHANGED callerVars

\* lines 58-59 and the start of the comprehension of line 60
Step_disc_check(p) ==
    /\ calls[p].pc = "disc_check"
    /\ IF Len(heap[net_flows_of(p)]) # Len(heap[calls[p].per])
       THEN /\ calls' = [calls EXCEPT ![p].pc = "done",
                                      ![p].result = Raised("ValueError")]
            /\ UNCHANGED heap
       ELSE /\ heap' = alloc(heap, Local(p, "discounted_flows"), <<>>)
            /\ calls' = [calls EXCEPT ![p].pc = "disc_comp", ![p].i = 1]
    /\ UNCHANGED callerVars

\* line 60: one element of the comprehension, or its end
Step_disc_comp(p) ==
    /\ calls[p].pc = "disc_comp"
    /\ LET z == zip(heap[net_flows_of(p)], heap[calls[p].per])
           i == calls[p].i
       IN  IF i <= Len(z)
           THEN LET e == discount_element(z[i][1], discount_rate, z[i][2])
                IN  IF e.status = "raised"
                    THEN /\ UNCHANGED heap
                         /\ calls' = [calls EXCEPT ![p].pc = "done",
                                                   ![p].result = e,
                                                   ![p].work.divs = @ + 1]
                    ELSE /\ heap' = append(heap,
                                           Local(p, "discounted_flows"),
                                           e.value)
                         /\ calls' = [calls EXCEPT ![p].i = i + 1,
                                                   ![p].work.divs = @ + 1]
           ELSE /\ UNCHANGED heap
                /\ calls' =
                     IF calls[p].fn = "apply_discount_rate"
                     THEN [calls EXCEPT
                             ![p].pc = "done",
                             ![p].result =
                                 Returned(Local(p, "discounted_flows"))]
                     ELSE [calls EXCEPT ![p].pc = "cumdisc_init"]
    /\ UNCHANGED callerVars

\* variant: the running total of the previous loop is carried on
Step_cumdisc_init_carried(p) ==
    /\ calls[p].pc = "cumdisc_init"
    /\ heap' = alloc(heap, Local(p, "cumulative_discounted"), <<>>)
    /\ calls' = [calls EXCEPT ![p].pc = "cumdisc_loop", ![p].i = 1]
    /\ UNCHANGED callerVars

\* lines 73-74
Step_cumdisc_init(p) ==
    /\ calls[p].pc = "cumdisc_init"
    /\ heap' = alloc(heap, Local(p, "cumulative_discounted"), <<>>)
    /\ calls' = [calls EXCEPT ![p].pc = "cumdisc_loop", ![p].i = 1,
                              ![p].total = Zero]
    /\ UNCHANGED callerVars

\* lines 75-78: one iteration of the loop, or its end and the return
Step_cumdisc_loop(p) ==
    /\ calls[p].pc = "cumdisc_loop"
    /\ LET discounted == heap[discounted_of(p)]
           i == calls[p].i
       IN  IF i <= Len(discounted)
           THEN LET t == float_add(calls[p].total, discounted[i])
                IN  /\ heap' = append(heap,
                                      Local(p, "cumulative_discounted"), t)
                    /\ calls' = [calls EXCEPT ![p].i = i + 1,
                                              ![p].total = t,
                                              ![p].work.adds = @ + 1]
           ELSE /\ UNCHANGED heap
                /\ calls' =
                     IF calls[p].fn =
                            "compute_cumulative_discounted_cash_flow"
                     THEN [calls EXCEPT
                             ![p].pc = "done",
                             ![p].result =
                                 Returned(Local(p, "cumulative_discounted"))]
                     ELSE [calls EXCEPT ![p].pc = "stmt_return"]
    /\ UNCHANGED callerVars

\* lines 112-117: the dictionary refers to the four lists the call built
Step_stmt_return(p) ==
    /\ calls[p].pc = "stmt_return"
    /\ calls' = [calls EXCEPT
                   ![p].pc = "done",
                   ![p].result = Returned(
                       [net_cash_flow |-> Local(p, "net_flows"),
                        cumulative_cash_flow |-> Local(p, "cumulative"),
                        discounted_cash_flow |->
                            Local(p, "discounted_flows"),
                        cumulative_discounted_cash_flow |->
                            Local(p, "cumulative_discounted")])]
    /\ UNCHANGED <<heap, callerVars>>
\* lines 88-89
Step_sum_init(p) ==
    /\ calls[p].pc = "sum_init"
    /\ heap' = alloc(alloc(heap, Local(p, "computed_items"), <<>>),
                     Local(p, "line_totals"), <<>>)
    /\ calls' = [calls EXCEPT ![p].pc = "sum_loop", ![p].i = 1]
    /\ UNCHANGED callerVars

\* variant: an item that cannot be converted is left out and the loop goes on
Step_sum_loop_skipping(p) ==
    /\ calls[p].pc = "sum_loop"
    /\ LET items == heap[Ref(Caller, "line_items")]
           i == calls[p].i
       IN  IF i <= Len(items)
           THEN LET item == items[i]
                    qty == float(get(item, "quantity", IntVal(0)))
                    up == float(get(item, "unit_price", IntVal(0)))
                IN  IF qty.status = "raised" \/ up.status = "raised"
                    THEN /\ UNCHANGED heap
                         /\ calls' = [calls EXCEPT ![p].i = i + 1,
                                                   ![p].work.items = @ + 1]
                    ELSE LET line_total ==
                                 calculate_line_item(qty.value, up.value)
                         IN  /\ heap' =
                                  append(
                                    append(heap, Local(p, "computed_items"),
                                           computed_item(item, qty.value,
                                                         up.value,
                                                         line_total)),
                                    Local(p, "line_totals"), line_total)
                             /\ calls' =
                                  [calls EXCEPT ![p].i = i + 1,
                                                ![p].work.items = @ + 1]
           ELSE /\ UNCHANGED heap
                /\ calls' = [calls EXCEPT ![p].pc = "sum_totals"]
    /\ UNCHANGED callerVars

\* lines 91-103: one iteration of the loop, or its end; a conversion that
\* raises ends the call
Step_sum_loop(p) ==
    /\ calls[p].pc = "sum_loop"
    /\ LET items == heap[Ref(Caller, "line_items")]
           i == calls[p].i
       IN  IF i <= Len(items)
           THEN LET item == items[i]
                    qty == float(get(item, "quantity", IntVal(0)))
                    up == float(get(item, "unit_price", IntVal(0)))
                IN  IF qty.status = "raised" \/ up.status = "raised"
                    THEN /\ UNCHANGED heap
                         /\ calls' =
                              [calls EXCEPT
                                 ![p].pc = "done",
                                 ![p].result =
                                     IF qty.status = "raised" THEN qty
                                     ELSE up,
                                 ![p].work.items = @ + 1]
                    ELSE LET line_total ==
                                 calculate_line_item(qty.value, up.value)
                         IN  /\ heap' =
                                  append(
                                    append(heap, Local(p, "computed_items"),
                                           computed_item(item, qty.value,
                                                         up.value,
                                                         line_total)),
                                    Local(p, "line_totals"), line_total)
                             /\ calls' =
                                  [calls EXCEPT ![p].i = i + 1,
                                                ![p].work.items = @ + 1]
           ELSE /\ UNCHANGED heap
                /\ calls' = [calls EXCEPT ![p].pc = "sum_totals"]
    /\ UNCHANGED callerVars

\* lines 105-114: the totals and the returned dictionary, which refers to
\* the list of computed items
Step_sum_totals(p) ==
    /\ calls[p].pc = "sum_totals"
    /\ LET rate == IF tax_rate.supplied THEN tax_rate.rate ELSE Zero
           subtotal == calculate_subtotal(heap[Local(p, "line_totals")])
           tax == calculate_tax(subtotal, rate)
           grand_total == calculate_grand_total(subtotal, tax)
       IN  calls' = [calls EXCEPT
                       ![p].pc = "done",
                       ![p].result = Returned(
                           [line_items |-> Local(p, "computed_items"),
                            subtotal |-> subtotal,
                            tax |-> tax,
                            grand_total |-> grand_total])]
    /\ UNCHANGED <<heap, callerVars>>

\* one statement of call p
Step(p) ==
    \/ Step_net_check(p)
    \/ Step_net_comp(p)
    \/ Step_cum_init(p)
    \/ Step_cum_loop(p)
    \/ Step_disc_default(p)
    \/ Step_disc_check(p)
    \/ Step_disc_comp(p)
    \/ Step_cumdisc_init(p)
    \/ Step_cumdisc_loop(p)
    \/ Step_stmt_return(p)
    \/ Step_sum_init(p)
    \/ Step_sum_loop(p)
    \/ Step_sum_totals(p)

RunNext == \E p \in Calls : Step(p)

\* the caller's lists as objects
CallerHeap ==
    (Ref(Caller, "inflows") :> inflows) @@
    (Ref(Caller, "outflows") :> outflows) @@
    (Ref(Caller, "line_items") :> line_items) @@
    (IF periods.isNone THEN <<>>
     ELSE Ref(Caller, "periods") :> periods.list)

RunAmounts == {<<1, 1>>, <<3, 1>>}
RunRates == {<<-1, 1>>, <<1, 4>>}
RunPeriods ==
    {None} \cup {List([i \in 1..k |-> k + 1 - i]) : k \in 0..MaxLen}
RunItems ==
    {Entry("quantity", q) @@ Entry("unit_price", u) :
        q \in {Absent, Num(<<2, 1>>), Str(<<"a", "b", "c">>), NoneValue},
        u \in {Num(<<3, 2>>), Str(<<"a", "b", "c">>)}}
RunTaxArgs == {NoTaxRate, TaxRate(<<1, 4>>)}

\* one call runs, of a cash-flow function or of the estimation summary
RunInit ==
    /\ NoAgent
    /\ op = "none"
    /\ result = NoCall
    /\ args = <<>>
    /\ \/ /\ inflows \in SeqsUpTo(RunAmounts, MaxLen)
          /\ outflows \in SeqsUpTo(RunAmounts, MaxLen)
          /\ discount_rate \in RunRates
          /\ periods \in RunPeriods
          /\ line_items = <<>>
          /\ tax_rate = NoTaxRate
          /\ \E f \in CashFunctions :
                 calls = [p \in Calls |-> IF p = 1 THEN NewCall(f) ELSE Idle]
       \/ /\ inflows = <<>>
          /\ outflows = <<>>
          /\ discount_rate = Zero
          /\ periods = None
          /\ line_items \in SeqsUpTo(RunItems, MaxItems)
          /\ tax_rate \in RunTaxArgs
          /\ calls = [p \in Calls |->
                         IF p = 1 THEN NewCall("generate_estimation_summary")
                         ELSE Idle]
    /\ heap = CallerHeap

RunSpec == RunInit /\ [][RunNext]_vars

\* the interpreter runs every call that has started to its end
RunFairSpec == RunSpec /\ \A p \in Calls : WF_vars(Step(p))

\* the six functions; calls are interchangeable, so the functions of calls
\* 1, 2, ... are chosen in the order of this list
AllFunctions ==
    <<"compute_net_cash_flow", "compute_cumulative_flow",
      "apply_discount_rate", "compute_cumulative_discounted_cash_flow",
      "generate_cash_flow_statement", "generate_estimation_summary">>

\* the arguments of the concurrent calls: flows that alternate 1, 3 against
\* outflows of 1, default periods, and line items whose last entry may be
\* one that cannot be converted
ConcurrentItems ==
    {[k \in 1..MaxItems |->
         Entry("quantity",
               IF k = MaxItems THEN q ELSE Num(<<2, 1>>)) @@
         Entry("unit_price", Num(<<3, 2>>))] :
        q \in {Num(<<2, 1>>), Str(<<"a", "b", "c">>)}}

\* every call has started and none has executed a statement; all of them
\* were handed the same objects of the caller
ConcurrentInit ==
    /\ NoAgent
    /\ op = "none"
    /\ result = NoCall
    /\ args = <<>>
    /\ inflows = [k \in 1..MaxLen |-> IF k % 2 = 1 THEN <<1, 1>> ELSE <<3, 1>>]
    /\ outflows = [k \in 1..MaxLen |-> <<1, 1>>]
    /\ discount_rate = <<1, 4>>
    /\ periods = None
    /\ line_items \in ConcurrentItems
    /\ tax_rate = TaxRate(<<1, 4>>)
    /\ \E f \in [Calls -> DOMAIN AllFunctions] :
           /\ \A p \in Calls : p + 1 \in Calls => f[p] <= f[p + 1]
           /\ calls = [p \in Calls |-> NewCall(AllFunctions[f[p]])]
    /\ heap = CallerHeap

\* the statements of the calls interleave in any order
ConcurrentSpec == ConcurrentInit /\ [][RunNext]_vars

\* ------------------------------------------------- BaseAgent.generate
\* the subclasses of BaseAgent
AgentClasses ==
    {"CashFlowAgent", "EstimationsAgent", "RevenueModelingAgent",
     "ResourcePlanningAgent"}

ProjectNames == {"alpha", "beta"}

\* exception classes: the first two derive from Exception, the others
\* derive from BaseException only
ExceptionClasses == {"TypeError", "RuntimeError"}
BaseOnlyClasses == {"KeyboardInterrupt", "SystemExit"}

Exc(c, m) == [cls |-> c, message |-> m]
NoException == Exc("none", "")

\* str(e)
str(e) == e.message

\* variant: a bare except, which catches every exception
IsException_any(e) == TRUE

\* isinstance(e, Exception), the test of the except clause at line 139
IsException(e) == e.cls \in ExceptionClasses

\* the positional parameters after self that _format_input accepts:
\* CashFlowAgent (cash_flow.py 45-50) leaves out industry
FormatParams(class) == IF class = "CashFlowAgent" THEN 3 ELSE 4

\* self._format_input called with n positional arguments: Python raises
\* TypeError when they are more than the method accepts
format_input(class, n) ==
    IF n > FormatParams(class)
    THEN Raised(Exc("TypeError", "too many positional arguments"))
    ELSE Returned("prompt")

\* what self.agent_executor.invoke can do: return a dictionary, with or
\* without the keys output and intermediate_steps, or raise
ExecutorResults ==
    {o @@ s : o \in {<<>>, "output" :> "report"},
              s \in {<<>>, "intermediate_steps" :> List(<<"step">>)}}

ExecutorExceptions ==
    {Exc("RuntimeError", "rate limit"), Exc("KeyboardInterrupt", ""),
     Exc("SystemExit", "1")}

\* variant: the intermediate steps are handed out whatever streaming is
prepare_response_steps(streaming, name, output, res, success) ==
    [project_name |-> name,
     output |-> output,
     success |-> success,
     intermediate_steps |->
         IF "intermediate_steps" \in DOMAIN res
         THEN res["intermediate_steps"] ELSE List(<<>>)]

\* _prepare_response, lines 164-170
prepare_response(streaming, name, output, res, success) ==
    [project_name |-> name,
     output |-> output,
     success |-> success,
     intermediate_steps |->
         IF streaming
         THEN IF "intermediate_steps" \in DOMAIN res
              THEN res["intermediate_steps"] ELSE List(<<>>)
         ELSE None]

\* _prepare_error_response, lines 183-188
prepare_error_response(name, error) ==
    [project_name |-> name,
     output |-> "An error occurred during generation.",
     success |-> FALSE,
     error |-> error]

\* an agent of any class has been created, streaming or not, and generate
\* has been called on it
AgentInit ==
    /\ inflows = <<>>
    /\ outflows = <<>>
    /\ discount_rate = Zero
    /\ periods = None
    /\ op = "none"
    /\ result = NoCall
    /\ line_items = <<>>
    /\ tax_rate = NoTaxRate
    /\ args = <<>>
    /\ heap = <<>>
    /\ calls = <<>>
    /\ agent \in [class : AgentClasses, streaming : BOOLEAN]
    /\ project_name \in ProjectNames
    /\ gen = [pc |-> "format_input", agent_input |-> "", result |-> <<>>,
              exc |-> NoException, outcome |-> NoCall]

engineVars == <<inflows, outflows, discount_rate, periods, op, result,
                line_items, tax_rate, args, heap, calls>>

\* lines 127-129: generate passes four arguments to self._format_input
Gen_format_input ==
    /\ gen.pc = "format_input"
    /\ LET r == format_input(agent.class, 4)
       IN  gen' = IF r.status = "raised"
                  THEN [gen EXCEPT !.pc = "except", !.exc = r.exc]
                  ELSE [gen EXCEPT !.pc = "invoke", !.agent_input = r.value]
    /\ UNCHANGED <<engineVars, agent, project_name>>

\* line 131: the executor returns a dictionary
Gen_invoke_returns ==
    /\ gen.pc = "invoke"
    /\ \E res \in ExecutorResults :
           gen' = [gen EXCEPT !.pc = "prepare_response", !.result = res]
    /\ UNCHANGED <<engineVars, agent, project_name>>

\* line 131: the executor raises
Gen_invoke_raises ==
    /\ gen.pc = "invoke"
    /\ \E e \in ExecutorExceptions :
           gen' = [gen EXCEPT !.pc = "except", !.exc = e]
    /\ UNCHANGED <<engineVars, agent, project_name>>

\* lines 132-138
Gen_prepare_response ==
    /\ gen.pc = "prepare_response"
    /\ LET output == IF "output" \in DOMAIN gen.result
                     THEN gen.result["output"] ELSE ""
       IN  gen' = [gen EXCEPT
                     !.pc = "done",
                     !.outcome = Returned(
                         prepare_response(agent.streaming, project_name,
                                          output, gen.result, TRUE))]
    /\ UNCHANGED <<engineVars, agent, project_name>>

\* lines 139-143: the handler runs for an Exception; any other exception
\* leaves generate
Gen_except ==
    /\ gen.pc = "except"
    /\ gen' = IF IsException(gen.exc)
              THEN [gen EXCEPT
                      !.pc = "done",
                      !.outcome = Returned(
                          prepare_error_response(project_name,
                                                 str(gen.exc)))]
              ELSE [gen EXCEPT !.pc = "done",
                               !.outcome = Raised(gen.exc.cls)]
    /\ UNCHANGED <<engineVars, agent, project_name>>

AgentNext ==
    \/ Gen_format_input
    \/ Gen_invoke_returns
    \/ Gen_invoke_raises
    \/ Gen_prepare_response
    \/ Gen_except

AgentSpec == AgentInit /\ [][AgentNext]_vars

\* ============================================================ properties
\* the error the two length checks raise (LengthMismatchError in the
\* specification, a ValueError in the code)
LengthMismatchError(r) == r.status = "raised" /\ r.exc = "ValueError"

\* the sum of s[1..i], accumulated from the left starting at 0.0
RECURSIVE PrefixSum(_, _)
PrefixSum(s, i) == IF i = 0 THEN Zero ELSE float_add(PrefixSum(s, i - 1), s[i])

\* the divisor of the discounting of one period
Divisor(rate, period) == float_pow(float_add(One, rate), period)

\* the periods a call of apply_discount_rate on n cash flows works with
EffectivePeriods(per, n) == IF per.isNone THEN range1(n) ELSE per.list

IsConstantPositive(s) ==
    /\ Len(s) > 0
    /\ \A i \in DOMAIN s : s[i] = s[1] /\ Less(Zero, s[i])

\* C1: for inflows and outflows of equal length N, compute_net_cash_flow
\* returns a sequence of length N whose entry i is inflows[i] - outflows[i]
C1_NetIsElementwiseDifference ==
    (op = "compute_net_cash_flow" /\ Len(inflows) = Len(outflows)) =>
        /\ result.status = "returned"
        /\ Len(result.value) = Len(inflows)
        /\ \A i \in 1..Len(inflows) :
               result.value[i] = float_sub(inflows[i], outflows[i])

C1_Witness ==
    /\ op = "compute_net_cash_flow"
    /\ Len(inflows) = 2 /\ Len(outflows) = 2
    /\ result.status = "returned"
    /\ result.value[1] # result.value[2]
    /\ Less(result.value[1], Zero)

\* C2: compute_net_cash_flow on inflows and outflows of different lengths
\* raises the length error and returns nothing
C2_NetLengthMismatchRaises ==
    (op = "compute_net_cash_flow" /\ Len(inflows) # Len(outflows)) =>
        LengthMismatchError(result)

C2_Witness ==
    /\ op = "compute_net_cash_flow"
    /\ Len(inflows) = 2 /\ Len(outflows) = 1
    /\ LengthMismatchError(result)

\* C3: apply_discount_rate with a supplied periods list whose length differs
\* from that of cash_flows raises the length error and returns nothing
C3_DiscountLengthMismatchRaises ==
    (/\ op = "apply_discount_rate"
     /\ ~periods.isNone
     /\ Len(periods.list) # Len(inflows)) =>
        LengthMismatchError(result)

C3_Witness ==
    /\ op = "apply_discount_rate"
    /\ ~periods.isNone
    /\ Len(inflows) = 2 /\ Len(periods.list) = 1
    /\ discount_rate = <<1, 4>>
    /\ LengthMismatchError(result)

\* C4: both cumulative functions return, for an input of length N (0
\* included), a sequence of length N whose entry i is the sum of inputs
\* 1..i; the last entry is the sum of all inputs
C4_CumulativeIsRunningSum ==
    (op \in {"compute_cumulative_flow",
             "compute_cumulative_discounted_cash_flow"}) =>
        /\ result.status = "returned"
        /\ Len(result.value) = Len(inflows)
        /\ \A i \in 1..Len(inflows) : result.value[i] = PrefixSum(inflows, i)
        /\ Len(inflows) > 0 =>
               result.value[Len(inflows)] = PrefixSum(inflows, Len(inflows))

C4_Witness ==
    /\ op = "compute_cumulative_flow"
    /\ Len(inflows) >= 2
    /\ result.status = "returned"
    /\ result.value[2] # inflows[2]
    /\ result.value[2] # result.value[1]

\* a call of apply_discount_rate with a supplied periods list of the
\* length of the cash flows has been made
DiscountCallWithPeriods ==
    /\ op = "apply_discount_rate"
    /\ ~periods.isNone
    /\ Len(periods.list) = Len(inflows)

\* entry i of the result is cash_flows[i] / (1 + discount_rate) ** per[i]
DiscountedAsGiven(value, cash_flows, rate, per) ==
    /\ Len(value) = Len(cash_flows)
    /\ \A i \in 1..Len(cash_flows) :
           value[i] = float_truediv(cash_flows[i], Divisor(rate, per[i]))

\* C5 as stated: for every cash_flows, rate and periods of the same length
\* apply_discount_rate returns the sequence of the quotients
\* cash_flows[i] / (1 + discount_rate) ** periods[i]
C5_DiscountReturnsForEveryRate ==
    DiscountCallWithPeriods =>
        /\ result.status = "returned"
        /\ DiscountedAsGiven(result.value, inflows, discount_rate,
                             periods.list)

\* C5 amended: the quotients are returned, with the supplied periods used
\* as given, whenever no divisor (1 + discount_rate) ** periods[i] is zero;
\* when a divisor is zero the call raises ZeroDivisionError instead
C5_DiscountQuotientsUnlessZeroDivisor ==
    DiscountCallWithPeriods =>
        IF \A i \in 1..Len(inflows) :
               Divisor(discount_rate, periods.list[i]) # Zero
        THEN /\ result.status = "returned"
             /\ DiscountedAsGiven(result.value, inflows, discount_rate,
                                  periods.list)
        ELSE /\ result.status = "raised"
             /\ result.exc = "ZeroDivisionError"

C5_Witness ==
    /\ DiscountCallWithPeriods
    /\ periods.list = <<2, 1>>
    /\ discount_rate = <<1, 4>>
    /\ result.status = "returned"
    /\ result.value[1] # result.value[2]
    /\ inflows[1] = inflows[2]

\* C6: apply_discount_rate without periods gives the result of the call
\* with the explicit periods 1, 2, ..., N
C6_DefaultPeriodsAreOneToN ==
    (op = "apply_discount_rate" /\ periods.isNone) =>
        result = apply_discount_rate(inflows, discount_rate,
                                     List([i \in 1..Len(inflows) |-> i]))

C6_Witness ==
    /\ op = "apply_discount_rate"
    /\ periods.isNone
    /\ Len(inflows) >= 2
    /\ result.status = "returned"
    /\ result.value[1] # inflows[1]

\* a call of apply_discount_rate with default periods, a positive rate and
\* a constant positive cash flow has returned
ConstantFlowDiscounted ==
    /\ op = "apply_discount_rate"
    /\ periods.isNone
    /\ Less(Zero, discount_rate)
    /\ IsConstantPositive(inflows)
    /\ result.status = "returned"

\* C7 as stated: for a positive rate and a constant positive cash flow the
\* discounted values strictly decrease as the period index increases
C7_DiscountedStrictlyDecrease ==
    ConstantFlowDiscounted =>
        \A i, j \in 1..Len(result.value) :
            i < j => Less(result.value[j], result.value[i])

\* C7 amended: for a positive rate and a constant positive cash flow the
\* values returned never increase as the period index increases (rounding
\* can make neighbouring values equal)
C7_DiscountedNeverIncrease ==
    ConstantFlowDiscounted =>
        /\ Len(result.value) = Len(inflows)
        /\ \A i, j \in 1..Len(result.value) :
               i < j => ~Less(result.value[i], result.value[j])

C7_Witness ==
    /\ ConstantFlowDiscounted
    /\ Len(inflows) >= 2
    /\ discount_rate = <<1, 4>>
    /\ Less(result.value[2], result.value[1])

\* a call of generate_cash_flow_statement has returned a statement
StatementReturned ==
    op = "generate_cash_flow_statement" /\ result.status = "returned"

\* s is the running sum of the series src
IsRunningSumOf(s, src) ==
    /\ Len(s) = Len(src)
    /\ \A i \in 1..Len(src) : s[i] = PrefixSum(src, i)

\* C8: in a returned statement cumulative_cash_flow is the running sum of
\* net_cash_flow, discounted_cash_flow is the discounting of net_cash_flow
\* and cumulative_discounted_cash_flow is the running sum of
\* discounted_cash_flow
C8_StatementComposition ==
    StatementReturned =>
        LET st == result.value
        IN  /\ IsRunningSumOf(st.cumulative_cash_flow, st.net_cash_flow)
            /\ DiscountedAsGiven(st.discounted_cash_flow, st.net_cash_flow,
                                 discount_rate,
                                 EffectivePeriods(periods,
                                                  Len(st.net_cash_flow)))
            /\ IsRunningSumOf(st.cumulative_discounted_cash_flow,
                              st.discounted_cash_flow)

C8_Witness ==
    /\ StatementReturned
    /\ Len(inflows) >= 2
    /\ discount_rate = <<1, 4>>
    /\ result.value.net_cash_flow[1] # Zero
    /\ result.value.net_cash_flow[2] # Zero
    /\ result.value.cumulative_cash_flow # result.value.net_cash_flow
    /\ result.value.cumulative_discounted_cash_flow #
           result.value.discounted_cash_flow

\* C9: every returned statement has exactly the four fields net_cash_flow,
\* cumulative_cash_flow, discounted_cash_flow and
\* cumulative_discounted_cash_flow
C9_StatementHasFourFields ==
    StatementReturned =>
        DOMAIN result.value = {"net_cash_flow", "cumulative_cash_flow",
                               "discounted_cash_flow",
                               "cumulative_discounted_cash_flow"}

C9_Witness ==
    /\ StatementReturned
    /\ inflows = <<>>
    /\ periods.isNone
    /\ result.value.cumulative_discounted_cash_flow = <<>>

\* C10: generate_cash_flow_statement raises the length error and returns no
\* statement when inflows and outflows differ in length and when a supplied
\* periods list differs in length from the flows
C10_StatementLengthMismatchRaises ==
    (/\ op = "generate_cash_flow_statement"
     /\ \/ Len(inflows) # Len(outflows)
        \/ ~periods.isNone /\ Len(periods.list) # Len(inflows)) =>
        LengthMismatchError(result)

C10_Witness ==
    /\ op = "generate_cash_flow_statement"
    /\ Len(inflows) = 2 /\ Len(outflows) = 2
    /\ ~periods.isNone /\ Len(periods.list) = 1
    /\ discount_rate = <<1, 4>>
    /\ LengthMismatchError(result)

\* a call of apply_discount_rate with a rate of exactly -1 has passed the
\* length check and meets a positive period
DiscountAtMinusOne ==
    /\ op = "apply_discount_rate"
    /\ discount_rate = <<-1, 1>>
    /\ LET p == EffectivePeriods(periods, Len(inflows))
       IN  /\ Len(p) = Len(inflows)
           /\ \E i \in 1..Len(p) : p[i] > 0

\* C11: a discount rate of -1 with a positive period is not handled: the
\* division by zero reaches the caller as ZeroDivisionError and no
\* discounted value is returned
C11_MinusOneRatePropagates ==
    DiscountAtMinusOne =>
        result.status = "raised" /\ result.exc = "ZeroDivisionError"

C11_Witness ==
    /\ DiscountAtMinusOne
    /\ Len(inflows) >= 2
    /\ ~periods.isNone
    /\ result.status = "raised"
    /\ result.exc = "ZeroDivisionError"

\* ------------------------------------------ properties of the estimation
\* a call of generate_estimation_summary has returned a summary
SummaryReturned ==
    op = "generate_estimation_summary" /\ result.status = "returned"

\* the numeric strings among the attribute values of the model
NumericStrings == {<<"2">>, <<"1", ".", "5">>}

\* float(v) succeeds: v is a number or a string that denotes one
Coercible(v) == IsNum(v) \/ IsInt(v) \/ (IsStr(v) /\ v.str \in NumericStrings)

\* the number a coercible value denotes
Denoted(v) ==
    IF IsNum(v) THEN v.num
    ELSE IF IsInt(v) THEN <<v.int, 1>>
    ELSE IF v.str = <<"2">> THEN <<2, 1>>
    ELSE <<3, 2>>

\* the quantity and the unit price the loop reads from an item
QuantityOf(item) ==
    IF "quantity" \in DOMAIN item THEN item["quantity"] ELSE IntVal(0)
UnitPriceOf(item) ==
    IF "unit_price" \in DOMAIN item THEN item["unit_price"] ELSE IntVal(0)

\* the line subtotals of the returned line items, in order
LineSubtotals(summary) ==
    [k \in 1..Len(summary.line_items) |->
        summary.line_items[k].line_subtotal.num]

\* the tax rate a call works with
EffectiveTaxRate == IF tax_rate.supplied THEN tax_rate.rate ELSE Zero

\* C12: in every returned summary subtotal is the sum of the line_subtotal
\* of the returned line items, tax is subtotal times tax_rate and
\* grand_total is subtotal plus tax
C12_SummaryTotals ==
    SummaryReturned =>
        LET r == result.value
            subs == LineSubtotals(r)
        IN  /\ r.subtotal = PrefixSum(subs, Len(subs))
            /\ r.tax = float_mul(r.subtotal, EffectiveTaxRate)
            /\ r.grand_total = float_add(r.subtotal, r.tax)

C12_Witness ==
    /\ SummaryReturned
    /\ Len(line_items) = 2
    /\ tax_rate = TaxRate(<<1, 4>>)
    /\ result.value.line_items[1].line_subtotal # Num(Zero)
    /\ result.value.line_items[2].line_subtotal # Num(Zero)
    /\ result.value.subtotal # Zero
    /\ result.value.tax # Zero
    /\ result.value.grand_total # result.value.subtotal

\* C13: without a tax rate generate_estimation_summary gives the outcome of
\* the call with tax_rate = 0: tax is 0 and grand_total equals subtotal
C13_DefaultTaxRateIsZero ==
    (op = "generate_estimation_summary" /\ ~tax_rate.supplied) =>
        /\ result = generate_estimation_summary(line_items, TaxRate(Zero))
        /\ result.status = "returned" =>
               /\ result.value.tax = Zero
               /\ result.value.grand_total = result.value.subtotal

C13_Witness ==
    /\ SummaryReturned
    /\ ~tax_rate.supplied
    /\ Len(line_items) >= 1
    /\ result.value.subtotal # Zero
    /\ result.value.grand_total = result.value.subtotal

\* C14: a missing quantity or unit_price counts as 0, so that the line
\* subtotal is 0, a missing description gives an empty description, and a
\* list whose present quantities and unit prices are all convertible
\* returns a summary whatever is missing
C14_MissingFieldsDefault ==
    (op = "generate_estimation_summary") =>
        /\ (\A k \in 1..Len(line_items) :
               /\ Coercible(QuantityOf(line_items[k]))
               /\ Coercible(UnitPriceOf(line_items[k])))
               => result.status = "returned"
        /\ result.status = "returned" =>
               \A k \in 1..Len(line_items) :
                   LET item == line_items[k]
                       out == result.value.line_items[k]
                   IN  /\ "quantity" \notin DOMAIN item =>
                              /\ out.quantity = Num(Zero)
                              /\ out.line_subtotal = Num(Zero)
                       /\ "unit_price" \notin DOMAIN item =>
                              /\ out.unit_price = Num(Zero)
                              /\ out.line_subtotal = Num(Zero)
                       /\ "description" \notin DOMAIN item =>
                              out.description = Str(<<>>)

C14_Witness ==
    /\ SummaryReturned
    /\ Len(line_items) = 2
    /\ DOMAIN line_items[1] = {"unit_price"}
    /\ DOMAIN line_items[2] = {"quantity"}
    /\ result.value.line_items[1].unit_price # Num(Zero)
    /\ result.value.line_items[2].quantity # Num(Zero)
    /\ result.value.subtotal = Zero

\* the failure of the numeric conversion float(): InvalidNumericInputError
\* in the specification; in the code a ValueError for a string that is not
\* a number and a TypeError for a value that is no number and no string
InvalidNumericInputError(r) ==
    r.status = "raised" /\ r.exc \in {"ValueError", "TypeError"}

\* a quantity or unit price of the item is a string that is not a number
HasNonNumericString(item) ==
    \E key \in {"quantity", "unit_price"} :
        /\ key \in DOMAIN item
        /\ IsStr(item[key])
        /\ item[key].str \notin NumericStrings

\* the values the loop converts, in the order it converts them
ConvertedValues(items) ==
    [j \in 1..(2 * Len(items)) |->
        IF j % 2 = 1 THEN QuantityOf(items[(j + 1) \div 2])
        ELSE UnitPriceOf(items[j \div 2])]

\* the first value of the list that float() cannot convert
FirstUnconvertible(items) ==
    LET v == ConvertedValues(items)
        bad == {j \in DOMAIN v : ~Coercible(v[j])}
    IN  v[CHOOSE j \in bad : \A i \in bad : j <= i]

\* C15: a list with a line item whose quantity or unit_price is a string
\* that is not a number makes generate_estimation_summary fail with the
\* conversion error, wherever the item stands, and no summary is returned;
\* the error is the ValueError of that string unless a null value precedes
C15_NonNumericStringRaises ==
    (/\ op = "generate_estimation_summary"
     /\ \E k \in 1..Len(line_items) : HasNonNumericString(line_items[k])) =>
        /\ InvalidNumericInputError(result)
        /\ IsStr(FirstUnconvertible(line_items)) =>
               result.exc = "ValueError"

C15_Witness ==
    /\ op = "generate_estimation_summary"
    /\ Len(line_items) = 2
    /\ Coercible(QuantityOf(line_items[1]))
    /\ Coercible(UnitPriceOf(line_items[1]))
    /\ QuantityOf(line_items[1]) = Num(<<2, 1>>)
    /\ QuantityOf(line_items[2]) = Num(<<2, 1>>)
    /\ UnitPriceOf(line_items[2]) = Str(<<"a", "b", "c">>)
    /\ result.status = "raised"
    /\ result.exc = "ValueError"

\* C16: the returned line_items list has the length of the input list and
\* its k-th entry is derived from the k-th input item
C16_LineItemsKeepOrder ==
    SummaryReturned =>
        /\ Len(result.value.line_items) = Len(line_items)
        /\ \A k \in 1..Len(line_items) :
               LET item == line_items[k]
                   out == result.value.line_items[k]
               IN  /\ out.quantity = Num(Denoted(QuantityOf(item)))
                   /\ out.unit_price = Num(Denoted(UnitPriceOf(item)))
                   /\ out.description =
                          IF "description" \in DOMAIN item
                          THEN item["description"] ELSE Str(<<>>)

C16_Witness ==
    /\ SummaryReturned
    /\ Len(line_items) = 2
    /\ result.value.line_items[1].quantity # result.value.line_items[2].quantity
    /\ result.value.line_items[1].description #
           result.value.line_items[2].description
    /\ result.value.line_items[1].line_subtotal #
           result.value.line_items[2].line_subtotal

\* C17 as stated: each returned line item carries every attribute of its
\* input item, attributes other than description, quantity and unit_price
\* included, plus the line subtotal
C17_OriginalAttributesKept ==
    SummaryReturned =>
        \A k \in 1..Len(line_items) :
            LET item == line_items[k]
                out == result.value.line_items[k]
            IN  /\ "line_subtotal" \in DOMAIN out
                /\ \A key \in DOMAIN item :
                       /\ key \in DOMAIN out
                       /\ key \notin {"quantity", "unit_price"} =>
                              out[key] = item[key]

\* C17 amended: each returned line item carries exactly four attributes,
\* the description of its input item (empty when absent), the converted
\* quantity and unit price, and their product as line subtotal; no other
\* attribute of the input item is carried over
C17_FourAttributesOnly ==
    SummaryReturned =>
        \A k \in 1..Len(line_items) :
            LET item == line_items[k]
                out == result.value.line_items[k]
            IN  /\ DOMAIN out = {"description", "quantity", "unit_price",
                                 "line_subtotal"}
                /\ out.description =
                       IF "description" \in DOMAIN item
                       THEN item["description"] ELSE Str(<<>>)
                /\ out.quantity = Num(Denoted(QuantityOf(item)))
                /\ out.unit_price = Num(Denoted(UnitPriceOf(item)))
                /\ out.line_subtotal =
                       Num(float_mul(out.quantity.num, out.unit_price.num))

C17_Witness ==
    /\ SummaryReturned
    /\ Len(line_items) >= 1
    /\ "sku" \in DOMAIN line_items[1]
    /\ "sku" \notin DOMAIN result.value.line_items[1]
    /\ result.value.line_items[1].description = line_items[1]["description"]
    /\ result.value.line_items[1].line_subtotal # Num(Zero)

\* C18: generate_estimation_summary on an empty list returns, for every
\* tax rate, no line items and subtotal, tax and grand_total 0;
\* calculate_subtotal of an empty sequence is 0
C18_EmptyListGivesZeros ==
    /\ (op = "generate_estimation_summary" /\ line_items = <<>>) =>
           /\ result.status = "returned"
           /\ result.value.line_items = <<>>
           /\ result.value.subtotal = Zero
           /\ result.value.tax = Zero
           /\ result.value.grand_total = Zero
    /\ (op = "calculate_subtotal" /\ args = <<>>) =>
           result.status = "returned" /\ result.value = Zero

C18_Witness ==
    /\ op = "generate_estimation_summary"
    /\ line_items = <<>>
    /\ tax_rate = TaxRate(<<1, 4>>)
    /\ result.status = "returned"
    /\ result.value.grand_total = Zero

\* the items with every numeric string replaced by the number it denotes
WithNumbers(items) ==
    [k \in 1..Len(items) |->
        [key \in DOMAIN items[k] |->
            IF /\ key \in {"quantity", "unit_price"}
               /\ IsStr(items[k][key])
               /\ items[k][key].str \in NumericStrings
            THEN Num(Denoted(items[k][key]))
            ELSE items[k][key]]]

\* C19: a line item whose quantity and unit_price are numeric strings gives
\* the outcome of the same item with the numbers themselves, and the
\* returned quantity and unit_price are the numbers
C19_NumericStringsAsNumbers ==
    (op = "generate_estimation_summary") =>
        /\ result = generate_estimation_summary(WithNumbers(line_items),
                                                tax_rate)
        /\ result.status = "returned" =>
               \A k \in 1..Len(line_items) :
                   LET out == result.value.line_items[k]
                   IN  /\ IsNum(out.quantity)
                       /\ IsNum(out.unit_price)
                       /\ out.quantity.num = Denoted(QuantityOf(line_items[k]))
                       /\ out.unit_price.num =
                              Denoted(UnitPriceOf(line_items[k]))

C19_Witness ==
    /\ SummaryReturned
    /\ Len(line_items) >= 1
    /\ QuantityOf(line_items[1]) = Str(<<"2">>)
    /\ UnitPriceOf(line_items[1]) = Str(<<"1", ".", "5">>)
    /\ result.value.line_items[1].quantity = Num(<<2, 1>>)
    /\ result.value.line_items[1].unit_price = Num(<<3, 2>>)
    /\ result.value.line_items[1].line_subtotal = Num(<<3, 1>>)

\* C20: calculate_line_item is the product of its two arguments whatever
\* their signs; in a summary the line subtotal of an item with a negative
\* quantity is that negative product, and it enters the subtotal
C20_NoSignValidation ==
    /\ (op = "calculate_line_item") =>
           /\ result.status = "returned"
           /\ result.value = float_mul(args[1], args[2])
    /\ SummaryReturned =>
           LET r == result.value
               subs == LineSubtotals(r)
           IN  /\ \A k \in 1..Len(r.line_items) :
                      LET out == r.line_items[k]
                      IN  /\ out.quantity = Num(Denoted(QuantityOf(line_items[k])))
                          /\ out.line_subtotal.num =
                                 float_mul(out.quantity.num, out.unit_price.num)
                          /\ (Less(out.quantity.num, Zero) /\
                              Less(Zero, out.unit_price.num))
                                 => Less(out.line_subtotal.num, Zero)
               /\ r.subtotal = PrefixSum(subs, Len(subs))

C20_Witness ==
    /\ SummaryReturned
    /\ Len(line_items) = 2
    /\ result.value.line_items[1].line_subtotal = Num(<<3, 1>>)
    /\ result.value.line_items[2].quantity = Num(<<-1, 1>>)
    /\ result.value.line_items[2].line_subtotal = Num(<<-3, 2>>)
    /\ result.value.subtotal = <<3, 2>>

\* C24: the four series of a returned statement all have the common length
\* N of inflows and outflows, and for N = 0 (with no periods or empty
\* periods) the call returns four empty series instead of failing
C24_FourSeriesOfLengthN ==
    /\ StatementReturned =>
           LET st == result.value
           IN  /\ Len(inflows) = Len(outflows)
               /\ Len(st.net_cash_flow) = Len(inflows)
               /\ Len(st.cumulative_cash_flow) = Len(inflows)
               /\ Len(st.discounted_cash_flow) = Len(inflows)
               /\ Len(st.cumulative_discounted_cash_flow) = Len(inflows)
    /\ (/\ op = "generate_cash_flow_statement"
        /\ inflows = <<>> /\ outflows = <<>>
        /\ (periods.isNone \/ periods.list = <<>>)) =>
           /\ result.status = "returned"
           /\ \A k \in DOMAIN result.value : result.value[k] = <<>>

C24_Witness ==
    /\ StatementReturned
    /\ Len(inflows) = MaxLen
    /\ ~periods.isNone
    /\ Len(result.value.cumulative_discounted_cash_flow) = MaxLen

\* C29: apply_discount_rate falls back to the periods 1..N only when the
\* periods argument is missing: a supplied empty periods list with
\* non-empty cash flows raises the length error, a supplied empty periods
\* list with empty cash flows returns the empty list
C29_EmptyPeriodsAreNotDefaulted ==
    (op = "apply_discount_rate" /\ ~periods.isNone) =>
        /\ Len(periods.list) # Len(inflows) => LengthMismatchError(result)
        /\ (periods.list = <<>> /\ inflows # <<>>) =>
               LengthMismatchError(result)
        /\ (periods.list = <<>> /\ inflows = <<>>) =>
               result = Returned(<<>>)

C29_Witness ==
    /\ op = "apply_discount_rate"
    /\ ~periods.isNone /\ periods.list = <<>>
    /\ Len(inflows) = MaxLen
    /\ discount_rate = <<1, 4>>
    /\ LengthMismatchError(result)

\* a quantity or unit price of the item is a value float() cannot convert
HasUnconvertible(item) ==
    ~Coercible(QuantityOf(item)) \/ ~Coercible(UnitPriceOf(item))

\* C27: whatever the form of the value that cannot be coerced (a string
\* that is not a number, a null value), generate_estimation_summary fails
\* with one and the same error kind, the one a non-numeric string gives
C27_OneErrorKind ==
    (/\ op = "generate_estimation_summary"
     /\ \E k \in 1..Len(line_items) : HasUnconvertible(line_items[k])) =>
        /\ result.status = "raised"
        /\ result.exc = "ValueError"

\* the list objects a finished call hands back to its caller
ReturnedRefs(p) ==
    LET r == calls[p].result
    IN  IF r.status # "returned" THEN {}
        ELSE IF calls[p].fn = "generate_cash_flow_statement"
        THEN {r.value[k] : k \in DOMAIN r.value}
        ELSE IF calls[p].fn = "generate_estimation_summary"
        THEN {r.value.line_items}
        ELSE {r.value}

\* C21: during and after every call, returning or raising, the caller's
\* inflows, outflows, periods and line items hold what the caller passed,
\* and every list a call returns is an object the call created, none of
\* the caller's objects
C21_ArgumentsUntouched ==
    /\ heap[Ref(Caller, "inflows")] = inflows
    /\ heap[Ref(Caller, "outflows")] = outflows
    /\ heap[Ref(Caller, "line_items")] = line_items
    /\ ~periods.isNone => heap[Ref(Caller, "periods")] = periods.list
    /\ \A p \in Calls :
           calls[p].pc = "done" =>
               \A ref \in ReturnedRefs(p) :
                   ref \in DOMAIN heap /\ ref \notin DOMAIN CallerHeap

C21_Witness ==
    /\ calls[1].fn = "compute_cumulative_flow"
    /\ calls[1].pc = "done"
    /\ Len(inflows) = MaxLen
    /\ calls[1].result.status = "returned"
    /\ heap[calls[1].result.value] # inflows

\* the outcome of a finished call with the content of the lists it returns
Outcome(p) ==
    LET r == calls[p].result
    IN  IF r.status # "returned" THEN r
        ELSE IF calls[p].fn = "generate_cash_flow_statement"
        THEN Returned([k \in DOMAIN r.value |-> heap[r.value[k]]])
        ELSE IF calls[p].fn = "generate_estimation_summary"
        THEN Returned([r.value EXCEPT !.line_items = heap[@]])
        ELSE Returned(heap[r.value])

\* the outcome of function f when it runs alone on the caller's arguments
Alone(f) ==
    CASE f = "compute_net_cash_flow" ->
             compute_net_cash_flow(inflows, outflows)
      [] f = "compute_cumulative_flow" -> compute_cumulative_flow(inflows)
      [] f = "apply_discount_rate" ->
             apply_discount_rate(inflows, discount_rate, periods)
      [] f = "compute_cumulative_discounted_cash_flow" ->
             compute_cumulative_discounted_cash_flow(inflows)
      [] f = "generate_cash_flow_statement" ->
             generate_cash_flow_statement(inflows, outflows, discount_rate,
                                          periods)
      [] f = "generate_estimation_summary" ->
             generate_estimation_summary(line_items, tax_rate)

SameOutcome(a, b) ==
    /\ a.status = b.status
    /\ a.exc = b.exc
    /\ a.status = "returned" => a.value = b.value

\* C22: whatever the interleaving of the statements of concurrent calls,
\* every call that finishes has the outcome its function gives when it
\* runs alone on the same arguments
C22_InterleavedAsAlone ==
    \A p \in Calls :
        calls[p].pc = "done" =>
            SameOutcome(Outcome(p), Alone(calls[p].fn))

\* a call finished while another call of the same function was inside its
\* loop
C22_Witness ==
    /\ calls[1].fn = "generate_cash_flow_statement"
    /\ calls[1].pc = "done"
    /\ calls[1].result.status = "returned"
    /\ calls[2].fn = "generate_cash_flow_statement"
    /\ calls[2].pc = "cum_loop"
    /\ calls[2].i = 2

\* the loop iterations call p has executed
Iterations(p) ==
    calls[p].work.subs + calls[p].work.adds + calls[p].work.divs +
        calls[p].work.items

\* the length of the input of call p: its flows or its line items
InputLength(p) ==
    IF calls[p].fn = "generate_estimation_summary" THEN Len(line_items)
    ELSE Len(inflows)

\* the loops of the function of call p: four in a statement, one else
Loops(p) == IF calls[p].fn = "generate_cash_flow_statement" THEN 4 ELSE 1

Completed(p) ==
    /\ calls[p].pc = "done"
    /\ calls[p].fn # "idle" => calls[p].result.status \in {"returned", "raised"}

\* C23: every call executes at most one iteration per loop and input
\* element (four loops in generate_cash_flow_statement, one in
\* generate_estimation_summary) and eventually completes, with a result or
\* with an error
C23_CallsComplete ==
    /\ [](\A p \in Calls : Iterations(p) <= Loops(p) * InputLength(p))
    /\ <>(\A p \in Calls : Completed(p))

C23_Witness ==
    /\ calls[1].fn = "generate_cash_flow_statement"
    /\ Completed(1)
    /\ calls[1].result.status = "returned"
    /\ Len(inflows) = MaxLen
    /\ Iterations(1) = 4 * MaxLen

\* call p of a cash-flow function has failed with the length error
MismatchRaised(p) ==
    /\ calls[p].fn \in CashFunctions
    /\ calls[p].pc = "done"
    /\ LengthMismatchError(calls[p].result)

\* C25 as claimed: a call that fails with the length error has performed
\* no subtraction, no accumulation and no discounting
C25_NoArithmeticBeforeMismatch ==
    \A p \in Calls : MismatchRaised(p) => calls[p].work = NoWork

\* C25 amended: the length check comes before the arithmetic of the
\* function that makes it, so a single function and a statement whose
\* inflows and outflows differ in length fail with no arithmetic done; a
\* statement over N equal-length inflows and outflows whose periods list
\* has another length fails after its N subtractions and N accumulations,
\* before any discounting, and returns nothing
C25_MismatchBeforeOwnArithmetic ==
    \A p \in Calls :
        MismatchRaised(p) =>
            /\ calls[p].work.divs = 0
            /\ calls[p].result.value = <<>>
            /\ calls[p].fn # "generate_cash_flow_statement" =>
                   calls[p].work = NoWork
            /\ (/\ calls[p].fn = "generate_cash_flow_statement"
                /\ Len(inflows) # Len(outflows)) =>
                   calls[p].work = NoWork
            /\ (/\ calls[p].fn = "generate_cash_flow_statement"
                /\ Len(inflows) = Len(outflows)) =>
                   /\ ~periods.isNone
                   /\ Len(periods.list) # Len(inflows)
                   /\ calls[p].work =
                          [NoWork EXCEPT !.subs = Len(inflows),
                                         !.adds = Len(inflows)]

C25_Witness ==
    /\ calls[1].fn = "generate_cash_flow_statement"
    /\ MismatchRaised(1)
    /\ Len(inflows) = MaxLen
    /\ Len(outflows) = MaxLen
    /\ ~periods.isNone
    /\ calls[1].work.subs = MaxLen
    /\ calls[1].work.adds = MaxLen

\* list id, the running sums of the list src, grows by the next running sum
\* at its end, or is created empty, or stays as it is
GrowsAsRunningSum(id, src) ==
    IF id \notin DOMAIN heap
    THEN id \in DOMAIN heap' => heap'[id] = <<>>
    ELSE \/ heap'[id] = heap[id]
         \/ /\ Len(heap[id]) < Len(heap[src])
            /\ heap'[id] =
                 Append(heap[id],
                        float_add(IF heap[id] = <<>> THEN Zero
                                  ELSE heap[id][Len(heap[id])],
                                  heap[src][Len(heap[id]) + 1]))

\* C26: the two cumulative loops build their list in index order, one
\* entry per step: entry 0 is 0 plus input 0 and every later entry is the
\* entry before it plus the input of its index, in every call
C26_CumulativeInIndexOrder ==
    [][\A p \in Calls :
           /\ GrowsAsRunningSum(Local(p, "cumulative"), net_flows_of(p))
           /\ GrowsAsRunningSum(Local(p, "cumulative_discounted"),
                                discounted_of(p))]_vars

C26_Witness ==
    /\ calls[1].fn = "generate_cash_flow_statement"
    /\ calls[1].pc = "done"
    /\ calls[1].result.status = "returned"
    /\ Len(inflows) = MaxLen
    /\ heap[Local(1, "cumulative")][1] # Zero
    /\ heap[Local(1, "cumulative_discounted")][1] =
           heap[Local(1, "discounted_flows")][1]
    /\ heap[Local(1, "cumulative_discounted")][MaxLen] #
           heap[Local(1, "discounted_flows")][MaxLen]

\* the index of the first line item with a value float() cannot convert
FirstBadItem(items) ==
    CHOOSE k \in 1..Len(items) :
        /\ HasUnconvertible(items[k])
        /\ \A j \in 1..(k - 1) : ~HasUnconvertible(items[j])

\* C28: a summary over a list with an item that cannot be converted ends
\* at the first such item in input order: it raises the conversion error
\* of that item's value, the items before it and that item are the only
\* ones the loop has examined, and no totals are returned
C28_FailsAtFirstBadItem ==
    \A p \in Calls :
        (/\ calls[p].fn = "generate_estimation_summary"
         /\ calls[p].pc = "done"
         /\ \E k \in 1..Len(line_items) : HasUnconvertible(line_items[k])) =>
            LET k == FirstBadItem(line_items)
            IN  /\ calls[p].result =
                       float(FirstUnconvertible(line_items))
                /\ calls[p].result.status = "raised"
                /\ calls[p].work.items = k
                /\ calls[p].i = k
                /\ Len(heap[Local(p, "computed_items")]) = k - 1
                /\ Len(heap[Local(p, "line_totals")]) = k - 1

C28_Witness ==
    /\ calls[1].fn = "generate_estimation_summary"
    /\ calls[1].pc = "done"
    /\ Len(line_items) = MaxItems
    /\ ~HasUnconvertible(line_items[1])
    /\ HasUnconvertible(line_items[2])
    /\ Len(heap[Local(1, "line_totals")]) = 1
    /\ calls[1].result.status = "raised"


\* what generate hands back once it has ended
Response == gen.outcome.value

\* the response of the error path
ErrorResponse ==
    /\ gen.outcome.status = "returned"
    /\ DOMAIN Response = {"project_name", "output", "success", "error"}
    /\ Response.success = FALSE
    /\ Response.project_name = project_name
    /\ Response.error = str(gen.exc)

\* the response of the success path
SuccessResponse ==
    /\ gen.outcome.status = "returned"
    /\ DOMAIN Response =
           {"project_name", "output", "success", "intermediate_steps"}
    /\ Response.success = TRUE
    /\ Response.project_name = project_name
    /\ Response.output = IF "output" \in DOMAIN gen.result
                         THEN gen.result["output"] ELSE ""
    /\ Response.intermediate_steps =
           IF ~agent.streaming THEN None
           ELSE IF "intermediate_steps" \in DOMAIN gen.result
                THEN gen.result["intermediate_steps"]
                ELSE List(<<>>)

\* C30 as stated: generate never lets an exception reach its caller: when
\* formatting the input or invoking the agent raised, it returns the error
\* response, and otherwise the success response
C30_NeverPropagates ==
    gen.pc = "done" =>
        IF gen.exc # NoException THEN ErrorResponse ELSE SuccessResponse

\* C30: generate turns every exception derived from Exception, raised by
\* formatting the input or by invoking the agent, into the error response
\* (success False, the given project_name, the exception's message); an
\* exception that derives from BaseException only leaves generate; when
\* nothing is raised it returns success True with the agent's output, ""
\* when the result has none, and intermediate_steps is None unless the
\* agent was created with streaming, when it is the result's steps or []
C30_ExceptionsBecomeErrorResponses ==
    gen.pc = "done" =>
        IF gen.exc = NoException THEN SuccessResponse
        ELSE IF gen.exc.cls \in ExceptionClasses THEN ErrorResponse
        ELSE /\ gen.exc.cls \in BaseOnlyClasses
             /\ gen.outcome = Raised(gen.exc.cls)

C30_Witness ==
    /\ gen.pc = "done"
    /\ agent.class = "RevenueModelingAgent"
    /\ gen.exc.cls = "RuntimeError"
    /\ gen.outcome.status = "returned"
    /\ Response.success = FALSE
    /\ Response.error = "rate limit"

====
